---- MODULE Spec2Model ----
(***************************************************************************)
(* Model of fluvius_api_solution.py: the command line entry point main and *)
(* the functions it calls (_parse_args, request_access_token,              *)
(* _strip_bearer_prefix, _resolve_timezone, _build_history_range,          *)
(* get_consumption_data, analyze_consumption_data).                        *)
(*                                                                         *)
(* Python values are represented as follows.                               *)
(*   Optional[x]   a sequence of length at most one: <<>> is None,         *)
(*                 <<v>> is the value v.                                   *)
(*   bearer token  a sequence of one-character strings.                    *)
(*   other str     a TLA+ string.                                          *)
(*   JSON value    a record tagged by its field kind.                      *)
(*   dict          a function whose DOMAIN is the set of keys present.     *)
(*   datetime      a record [day, hour, minute, second, microsecond, off]: *)
(*                 day is the proleptic Gregorian ordinal of the wall      *)
(*                 clock date (date.toordinal), off the UTC offset of the  *)
(*                 tzinfo in minutes.                                      *)
(***************************************************************************)
EXTENDS Integers, Sequences, FiniteSets, TLC

VARIABLES
    pc,             \* position of the run inside main
    args,           \* the argparse.Namespace returned by _parse_args
    clock,          \* the instant read by datetime.now, as a UTC datetime
    zoneinfo_ok,    \* TRUE when "from zoneinfo import ZoneInfo" succeeded
    local_tz,       \* the zone of datetime.now().astimezone().tzinfo
    access_token,   \* Optional: the local access_token of main
    date_range,     \* Optional: the result of _build_history_range
    request,        \* Optional: the parameters of the consumption GET
    response,       \* Optional: how the consumption GET ended
    fetched,        \* Optional: the JSON value response.json() returned
    data,           \* Optional: the local data of main / sample of the analyzer
    output_file,    \* Optional: the text written to args.output
    login_calls,    \* number of calls of get_bearer_token_http
    get_calls,      \* number of calls of requests.get
    started,        \* the steps of main that have started, in order
    completed,      \* the steps of main that have completed, in order
    day_idx,        \* analyzer: index of the day being processed
    reading_idx,    \* analyzer: index of the next reading of that day
    day_consumption,\* analyzer: accumulator of the current day
    day_injection,  \* analyzer: accumulator of the current day
    report,         \* analyzer: the per-day totals that were printed
    printed,        \* the messages printed, by tag
    exc,            \* Optional: the exception that left main uncaught
    exit_code       \* Optional: the exit status of the process

vars == << pc, args, clock, zoneinfo_ok, local_tz, access_token, date_range,
           request, response,
           fetched, data, output_file, login_calls, get_calls, started,
           completed, day_idx, reading_idx, day_consumption, day_injection,
           report, printed, exc, exit_code >>

-----------------------------------------------------------------------------
(* Bounds of the model.                                                    *)

MaxPieces == 4        \* pieces a supplied bearer token is assembled from
MaxDaysBack == 2      \* largest ordinary --days-back value
MaxDays == 2          \* day records in an analysed response
MaxReadings == 2      \* readings in an analysed response, over all its days
Today == 739923       \* ordinal of the UTC date of the clock (2026-11-03)

-----------------------------------------------------------------------------
(* Optional values.                                                        *)

None == << >>
Some(v) == << v >>
IsNone(o) == o = << >>
Val(o) == o[1]

-----------------------------------------------------------------------------
(* str methods used on the bearer token.                                   *)

SP == " "
TAB == "\t"

\* str.isspace for one character
IsSpace(c) == c \in {SP, TAB}

\* str.lower for one character
LowerChar(c) ==
    CASE c = "B" -> "b"
      [] c = "E" -> "e"
      [] c = "A" -> "a"
      [] c = "R" -> "r"
      [] c = "X" -> "x"
      [] OTHER -> c

\* str.lower
Lower(s) == [i \in 1..Len(s) |-> LowerChar(s[i])]

RECURSIVE LStrip(_)
LStrip(s) == IF s # << >> /\ IsSpace(Head(s)) THEN LStrip(Tail(s)) ELSE s

RECURSIVE RStrip(_)
RStrip(s) ==
    IF s # << >> /\ IsSpace(s[Len(s)]) THEN RStrip(SubSeq(s, 1, Len(s) - 1)) ELSE s

\* str.strip()
Strip(s) == RStrip(LStrip(s))

\* str.startswith
StartsWith(s, p) == Len(s) >= Len(p) /\ SubSeq(s, 1, Len(p)) = p

\* s.split(sep, 1)[1] for a one-character sep that occurs in s
SplitOnceSecond(s, sep) ==
    LET i == CHOOSE k \in 1..Len(s) : s[k] = sep /\ \A j \in 1..(k - 1) : s[j] # sep
    IN  SubSeq(s, i + 1, Len(s))

BearerSp == << "b", "e", "a", "r", "e", "r", " " >>

strip_bearer_prefix(token) ==
    LET lowered == Strip(token)
    IN  IF StartsWith(Lower(lowered), BearerSp)
        THEN SplitOnceSecond(lowered, SP)
        ELSE lowered

-----------------------------------------------------------------------------
(* _parse_args: the validation after parser.parse_args().                  *)

\* "not x" for an Optional[str] attribute of the namespace
Falsy(o) == IF IsNone(o) THEN TRUE ELSE Val(o) = ""

\* "not args.bearer_token"
TokenFalsy(o) == IF IsNone(o) THEN TRUE ELSE Val(o) = << >>

\* parse_error with the password check left out
parse_error_no_password(a) ==
    IF TokenFalsy(a.bearer_token) /\ Falsy(a.email) THEN "Missing --email"
    ELSE IF Falsy(a.ean) THEN "Missing --ean"
    ELSE IF Falsy(a.meter_serial) THEN "Missing --meter-serial"
    ELSE ""

\* The first parser.error that _parse_args reaches, or "" when it returns args.
parse_error(a) ==
    IF TokenFalsy(a.bearer_token) /\ Falsy(a.email) THEN "Missing --email"
    ELSE IF TokenFalsy(a.bearer_token) /\ Falsy(a.password) THEN "Missing --password"
    ELSE IF Falsy(a.ean) THEN "Missing --ean"
    ELSE IF Falsy(a.meter_serial) THEN "Missing --meter-serial"
    ELSE ""

\* parser.error prints the message and raises SystemExit(2)
ParseArgsError ==
    /\ pc = "parse_args"
    /\ parse_error(args) # ""
    /\ pc' = "exited"
    /\ printed' = Append(printed, "usage_error")
    /\ exit_code' = Some(2)
    /\ UNCHANGED << args, clock, zoneinfo_ok, local_tz, access_token, date_range,
                    request, response, fetched, data, output_file, login_calls, get_calls,
                    started, completed, day_idx, reading_idx, day_consumption,
                    day_injection, report, exc >>

ParseArgsOk ==
    /\ pc = "parse_args"
    /\ parse_error(args) = ""
    /\ pc' = "request_access_token"
    /\ UNCHANGED << args, clock, zoneinfo_ok, local_tz, access_token, date_range,
                    request, response, fetched, data, output_file, login_calls, get_calls,
                    started, completed, day_idx, reading_idx, day_consumption,
                    day_injection, report, printed, exc, exit_code >>

-----------------------------------------------------------------------------
(* request_access_token and the try/except around it in main.              *)

\* args.bearer_token is set: no call of the collaborator
RequestTokenSupplied ==
    /\ pc = "request_access_token"
    /\ ~TokenFalsy(args.bearer_token)
    /\ access_token' = Some(strip_bearer_prefix(Val(args.bearer_token)))
    /\ started' = Append(started, "authenticate")
    /\ completed' = Append(completed, "authenticate")
    /\ printed' = Append(printed, "auth_ok")
    /\ pc' = "get_consumption_data"
    /\ UNCHANGED << args, clock, zoneinfo_ok, local_tz, date_range, request, response,
                    fetched, data, output_file, login_calls, get_calls, day_idx,
                    reading_idx, day_consumption, day_injection, report, exc,
                    exit_code >>

\* What a call of get_bearer_token_http can end in: a pair whose first
\* component is the token, FluviusAuthError, requests.RequestException, or an
\* exception of another class, which main does not catch.
LoginTokens == { << "x" >>, << >> }
LoginOutcomes ==
    { [r |-> "ok", token |-> t] : t \in LoginTokens }
        \cup { [r |-> "raise", exc |-> e] :
                 e \in {"FluviusAuthError", "RequestException", "KeyError"} }

\* auth_handler with the RequestException handler returning 0
auth_handler_returns_0(e) ==
    IF e = "FluviusAuthError" THEN Some(1)
    ELSE IF e = "RequestException" THEN Some(0)
    ELSE None

\* The handlers of main: the exit code main returns for a caught exception,
\* None for an exception it lets through.
auth_handler(e) ==
    IF e = "FluviusAuthError" THEN Some(1)
    ELSE IF e = "RequestException" THEN Some(1)
    ELSE None

RequestTokenLogin ==
    /\ pc = "request_access_token"
    /\ TokenFalsy(args.bearer_token)
    /\ login_calls' = login_calls + 1
    /\ started' = Append(started, "authenticate")
    /\ \E o \in LoginOutcomes :
        \/ /\ o.r = "ok"
           /\ access_token' = Some(o.token)
           /\ completed' = Append(completed, "authenticate")
           /\ printed' = Append(printed, "auth_ok")
           /\ pc' = "get_consumption_data"
           /\ UNCHANGED << exc, exit_code >>
        \/ /\ o.r = "raise"
           /\ auth_handler(o.exc) # None
           /\ printed' = Append(printed, o.exc)
           /\ pc' = "returned"
           /\ exit_code' = auth_handler(o.exc)
           /\ UNCHANGED << access_token, completed, exc >>
        \/ /\ o.r = "raise"
           /\ auth_handler(o.exc) = None
           /\ pc' = "crashed"
           /\ exc' = Some(o.exc)
           /\ exit_code' = Some(1)
           /\ UNCHANGED << access_token, completed, printed >>
    /\ UNCHANGED << args, clock, zoneinfo_ok, local_tz, date_range, request, response,
                    fetched, data, output_file, get_calls, day_idx, reading_idx,
                    day_consumption, day_injection, report >>

-----------------------------------------------------------------------------
(* _resolve_timezone and _build_history_range.                             *)

MINORDINAL == 1              \* date.min.toordinal()
MAXORDINAL == 3652059        \* date.max.toordinal()
MAXDELTADAYS == 999999999    \* timedelta.max.days
MinutesPerDay == 1440

\* The tz database: the offset in minutes of the keys it holds.
TzKeys == {"Europe/Brussels", "America/New_York"}
TzOffset(key) == IF key = "Europe/Brussels" THEN 60 ELSE 0 - 300

\* Keys the ZoneInfo constructor rejects with ValueError before any lookup
\* (absolute paths, paths that leave TZPATH).
TzBadKeys == {"../x", "/etc/localtime"}

UTC == [key |-> "UTC", off |-> 0]

\* ZoneInfo(name)
ZoneInfo(name) ==
    IF name \in TzBadKeys THEN [r |-> "raise", exc |-> "ValueError"]
    ELSE IF name \in TzKeys THEN [r |-> "ok", zone |-> [key |-> name, off |-> TzOffset(name)]]
    ELSE [r |-> "raise", exc |-> "ZoneInfoNotFoundError"]

\* _resolve_timezone(name), name an Optional[str]: the zone it returns, or the
\* exception that leaves it; warned tells whether the warning was printed.
resolve_timezone(name) ==
    LET tried == ~Falsy(name) /\ zoneinfo_ok
        loaded == ZoneInfo(Val(name))
        fallback == IF ~IsNone(local_tz) THEN Val(local_tz) ELSE UTC
    IN  IF tried /\ loaded.r = "ok"
        THEN [r |-> "ok", zone |-> loaded.zone, warned |-> FALSE]
        ELSE IF tried /\ loaded.exc # "ZoneInfoNotFoundError"
        THEN [r |-> "raise", exc |-> loaded.exc]
        ELSE [r |-> "ok", zone |-> fallback, warned |-> tried]

\* datetime.now(tzinfo): the clock's instant on the wall clock of the zone
now_in(zone) ==
    LET total == clock.hour * 60 + clock.minute + zone.off
    IN  [day |-> clock.day + (total \div MinutesPerDay),
         hour |-> (total % MinutesPerDay) \div 60,
         minute |-> total % 60,
         second |-> clock.second,
         microsecond |-> clock.microsecond,
         off |-> zone.off]

\* timedelta(days=n) is representable
DeltaOk(n) == n <= MAXDELTADAYS /\ 0 - n <= MAXDELTADAYS

\* dt - timedelta(days=n) is representable
DateOk(day) == MINORDINAL <= day /\ day <= MAXORDINAL

\* datetime.isoformat(timespec="milliseconds"): the fields of the text
\* YYYY-MM-DDTHH:MM:SS.mmm+HH:MM, the date kept as its ordinal
isoformat(dt) ==
    [day |-> dt.day, hh |-> dt.hour, mm |-> dt.minute, ss |-> dt.second,
     mmm |-> dt.microsecond \div 1000, off |-> dt.off]

\* build_history_range with end_date shifted by days_back like start_date
build_history_range_shifted_end(days_back, tz_name) ==
    LET tz == resolve_timezone(tz_name)
        local_now == now_in(tz.zone)
        start_date == [local_now EXCEPT !.day = local_now.day - days_back,
                                        !.hour = 0, !.minute = 0, !.second = 0,
                                        !.microsecond = 0]
        end_date == [local_now EXCEPT !.day = local_now.day - days_back,
                                      !.hour = 23, !.minute = 59, !.second = 59,
                                      !.microsecond = 999000]
    IN  IF tz.r = "raise" THEN tz
        ELSE IF ~DeltaOk(days_back) \/ ~DateOk(local_now.day - days_back)
        THEN [r |-> "raise", exc |-> "OverflowError"]
        ELSE [r |-> "ok", warned |-> tz.warned,
              historyFrom |-> isoformat(start_date),
              historyUntil |-> isoformat(end_date)]

build_history_range(days_back, tz_name) ==
    LET tz == resolve_timezone(tz_name)
        local_now == now_in(tz.zone)
        start_date == [local_now EXCEPT !.day = local_now.day - days_back,
                                        !.hour = 0, !.minute = 0, !.second = 0,
                                        !.microsecond = 0]
        end_date == [local_now EXCEPT !.hour = 23, !.minute = 59, !.second = 59,
                                      !.microsecond = 999000]
    IN  IF tz.r = "raise" THEN tz
        ELSE IF ~DeltaOk(days_back) \/ ~DateOk(local_now.day - days_back)
        THEN [r |-> "raise", exc |-> "OverflowError"]
        ELSE [r |-> "ok", warned |-> tz.warned,
              historyFrom |-> isoformat(start_date),
              historyUntil |-> isoformat(end_date)]

\* get_consumption_data up to the print before the try: the range is built
\* and the query parameters are assembled.
BuildRange ==
    /\ pc = "get_consumption_data"
    /\ started' = Append(started, "fetch")
    /\ LET rng == build_history_range(args.days_back, args.timezone)
       IN  \/ /\ rng.r = "ok"
              /\ date_range' = Some([historyFrom |-> rng.historyFrom,
                                     historyUntil |-> rng.historyUntil])
              /\ printed' = IF rng.warned THEN Append(printed, "tz_warning") ELSE printed
              /\ pc' = "requests_get"
              /\ UNCHANGED << exc, exit_code >>
           \/ /\ rng.r = "raise"
              /\ pc' = "crashed"
              /\ exc' = Some(rng.exc)
              /\ exit_code' = Some(1)
              /\ UNCHANGED << date_range, printed >>
    /\ UNCHANGED << args, clock, zoneinfo_ok, local_tz, access_token, request, response,
                    fetched, data, output_file, login_calls, get_calls, completed,
                    day_idx, reading_idx, day_consumption, day_injection, report >>

-----------------------------------------------------------------------------
(* JSON values: what response.json() returns and json.dump writes.         *)
(*   [kind |-> "null"]                                                     *)
(*   [kind |-> "number", tenths |-> n]    the number n / 10                *)
(*   [kind |-> "string", chars |-> s]                                      *)
(*   [kind |-> "array",  items |-> s]     s a sequence of day dicts        *)
(*   [kind |-> "object", keys |-> s, members |-> f]                        *)
(* A day dict is a function with keys among "d" (a string) and "v" (a      *)
(* sequence of reading dicts); a reading dict is a function with keys      *)
(* among "dc", "t" (integers) and "v" (a number or a string).              *)

JNull == [kind |-> "null"]
JNumber(n) == [kind |-> "number", tenths |-> n]
JString(s) == [kind |-> "string", chars |-> s]
JArray(s) == [kind |-> "array", items |-> s]
JObject(ks, f) == [kind |-> "object", keys |-> ks, members |-> f]

\* dict.get(key, default)
Get(d, key, default) == IF key \in DOMAIN d THEN d[key] ELSE default

\* bool(x) for a JSON value
Truthy(j) ==
    CASE j.kind = "null" -> FALSE
      [] j.kind = "number" -> j.tenths # 0
      [] j.kind = "string" -> j.chars # << >>
      [] j.kind = "array" -> j.items # << >>
      [] j.kind = "object" -> j.keys # << >>

\* len(x) is defined
HasLen(j) == j.kind \in {"string", "array", "object"}

\* list(x) for a JSON value that can be iterated
List(j) ==
    CASE j.kind = "array" -> j.items
      [] j.kind = "object" -> [i \in 1..Len(j.keys) |-> JString(j.keys[i])]
      [] j.kind = "string" -> [i \in 1..Len(j.chars) |-> JString(<< j.chars[i] >>)]

RECURSIVE Join(_, _)
\* sep.join(parts) on sequences of tokens
Join(parts, sep) ==
    IF parts = << >> THEN << >>
    ELSE IF Len(parts) = 1 THEN parts[1]
    ELSE parts[1] \o << sep >> \o Join(Tail(parts), sep)

Quote(s) == << "\"" >> \o s \o << "\"" >>

DumpScalar(j) ==
    CASE j.kind = "null" -> << "null" >>
      [] j.kind = "number" -> << ToString(j.tenths), "e-1" >>
      [] j.kind = "string" -> Quote(j.chars)

DumpMember(key, tokens) == Quote(<< key >>) \o << ":" >> \o tokens

DumpReading(r) ==
    LET dc == IF "dc" \in DOMAIN r THEN << DumpMember("dc", << ToString(r.dc) >>) >> ELSE << >>
        t == IF "t" \in DOMAIN r THEN << DumpMember("t", << ToString(r.t) >>) >> ELSE << >>
        v == IF "v" \in DOMAIN r THEN << DumpMember("v", DumpScalar(r.v)) >> ELSE << >>
    IN  << "{" >> \o Join(dc \o t \o v, ",") \o << "}" >>

DumpDay(day) ==
    LET d == IF "d" \in DOMAIN day THEN << DumpMember("d", Quote(<< day.d >>)) >> ELSE << >>
        v == IF "v" \in DOMAIN day
             THEN << DumpMember("v", << "[" >>
                        \o Join([i \in 1..Len(day.v) |-> DumpReading(day.v[i])], ",")
                        \o << "]" >>) >>
             ELSE << >>
    IN  << "{" >> \o Join(d \o v, ",") \o << "}" >>

\* json.dump(data, handle, indent=2): the tokens of the text written
json_dump(j) ==
    CASE j.kind \in {"null", "number", "string"} -> DumpScalar(j)
      [] j.kind = "array" ->
            << "[" >> \o Join([i \in 1..Len(j.items) |-> DumpDay(j.items[i])], ",") \o << "]" >>
      [] j.kind = "object" ->
            << "{" >>
            \o Join([i \in 1..Len(j.keys) |->
                        DumpMember(j.keys[i], DumpScalar(j.members[j.keys[i]]))], ",")
            \o << "}" >>

-----------------------------------------------------------------------------
(* get_consumption_data from the try around requests.get to its return.    *)

TIMEOUT == 30

\* What the network and the server can do with the GET: refuse the
\* connection, or answer after elapsed time units with a status and a body.
\* A body is a JSON value or [kind |-> "text"], text that is no JSON.
NotJson == [kind |-> "text"]

Reading(dc, t, v) == [dc |-> dc, t |-> t, v |-> v]
ExampleDay1 ==
    [d |-> "2024-01-01",
     v |-> << Reading(1, 1, JString(<< "2", ".", "5" >>)),
              Reading(2, 2, JString(<< "1", ".", "0" >>)) >>]
ExampleDay2 ==
    [d |-> "2024-01-02",
     v |-> << Reading(1, 2, JString(<< "3", ".", "0" >>)),
              Reading(2, 1, JString(<< "4", ".", "0" >>)) >>]

Bodies ==
    { NotJson, JNull, JNumber(5), JString(<< >>), JArray(<< >>),
      JObject(<< >>, << >>),
      JObject(<< "error" >>, [error |-> JString(<< "x" >>)]),
      JArray(<< ExampleDay1 >>), JArray(<< ExampleDay1, ExampleDay2 >>) }
Answer(elapsed, status, body) ==
    [conn |-> "ok", elapsed |-> elapsed, status |-> status, body |-> body]
GetOutcomes ==
    { [conn |-> "refused", elapsed |-> 0, status |-> 0, body |-> NotJson],
      Answer(TIMEOUT + 1, 200, JArray(<< ExampleDay1 >>)) }
        \cup { Answer(1, 200, b) : b \in Bodies }
        \cup { Answer(1, st, b) :
                 st \in { 300, 404, 500 }, b \in { NotJson, JArray(<< ExampleDay1 >>) } }

\* response.raise_for_status() raises HTTPError
RaisesForStatus(status) == 400 <= status /\ status < 600

\* get_consumption_result without the call of raise_for_status
get_consumption_result_any_status(o) ==
    IF o.conn = "refused" THEN [r |-> "return", data |-> None, msg |-> "api_failed"]
    ELSE IF o.elapsed > TIMEOUT THEN [r |-> "return", data |-> None, msg |-> "api_failed"]
    ELSE IF o.body.kind = "text" THEN [r |-> "return", data |-> None, msg |-> "parse_failed"]
    ELSE IF ~HasLen(o.body) THEN [r |-> "raise", exc |-> "TypeError"]
    ELSE [r |-> "return", data |-> Some(o.body), msg |-> "retrieved"]

\* The try blocks and the return of get_consumption_data for outcome o of
\* the GET: the value returned, or the exception that leaves the function.
get_consumption_result(o) ==
    IF o.conn = "refused" THEN [r |-> "return", data |-> None, msg |-> "api_failed"]
    ELSE IF o.elapsed > TIMEOUT THEN [r |-> "return", data |-> None, msg |-> "api_failed"]
    ELSE IF RaisesForStatus(o.status) THEN [r |-> "return", data |-> None, msg |-> "api_failed"]
    ELSE IF o.body.kind = "text" THEN [r |-> "return", data |-> None, msg |-> "parse_failed"]
    ELSE IF ~HasLen(o.body) THEN [r |-> "raise", exc |-> "TypeError"]
    ELSE [r |-> "return", data |-> Some(o.body), msg |-> "retrieved"]

BearerHeader == << "B", "e", "a", "r", "e", "r", " " >>

\* requests.get is called with the url, params, headers and timeout
RequestsGet ==
    /\ pc = "requests_get"
    /\ get_calls' = get_calls + 1
    /\ request' = Some([ean |-> Val(args.ean),
                        historyFrom |-> Val(date_range).historyFrom,
                        historyUntil |-> Val(date_range).historyUntil,
                        granularity |-> args.granularity,
                        asServiceProvider |-> "false",
                        meterSerialNumber |-> Val(args.meter_serial),
                        Authorization |-> BearerHeader \o Val(access_token),
                        timeout |-> TIMEOUT])
    /\ pc' = "response"
    /\ UNCHANGED << args, clock, zoneinfo_ok, local_tz, access_token, date_range,
                    response, fetched, data, output_file, login_calls, started,
                    completed, day_idx, reading_idx, day_consumption,
                    day_injection, report, printed, exc, exit_code >>

\* the GET ends; get_consumption_data runs to its return
GetResponse ==
    /\ pc = "response"
    /\ \E o \in GetOutcomes :
        LET res == get_consumption_result(o)
        IN  /\ response' = Some(o)
            /\ \/ /\ res.r = "return"
                  /\ data' = res.data
                  /\ fetched' = res.data
                  /\ printed' = Append(printed, res.msg)
                  /\ completed' = IF IsNone(res.data) THEN completed
                                  ELSE IF Truthy(Val(res.data))
                                  THEN Append(completed, "fetch")
                                  ELSE completed
                  /\ pc' = "got_data"
                  /\ UNCHANGED << exc, exit_code >>
               \/ /\ res.r = "raise"
                  /\ pc' = "crashed"
                  /\ exc' = Some(res.exc)
                  /\ exit_code' = Some(1)
                  /\ UNCHANGED << data, fetched, printed, completed >>
    /\ UNCHANGED << args, clock, zoneinfo_ok, local_tz, access_token, date_range,
                    request, output_file, login_calls, get_calls, started, day_idx,
                    reading_idx, day_consumption, day_injection, report >>

-----------------------------------------------------------------------------
(* main after get_consumption_data returned.                               *)

\* no_data as "data is None"
no_data_is_none(d) == IsNone(d)

\* "not data" in main
no_data(d) == IF IsNone(d) THEN TRUE ELSE ~Truthy(Val(d))

ReturnNoData ==
    /\ pc = "got_data"
    /\ no_data(data)
    /\ pc' = "returned"
    /\ exit_code' = Some(1)
    /\ UNCHANGED << args, clock, zoneinfo_ok, local_tz, access_token, date_range,
                    request, response, fetched, data, output_file, login_calls, get_calls,
                    started, completed, day_idx, reading_idx, day_consumption,
                    day_injection, report, printed, exc >>

\* open(args.output, "w") and json.dump: the write succeeds or OSError
\* leaves main
SaveOutput ==
    /\ pc = "got_data"
    /\ ~no_data(data)
    /\ started' = Append(started, "persist")
    /\ \E ok \in BOOLEAN :
        IF ok
        THEN /\ output_file' = Some(json_dump(Val(data)))
             /\ completed' = Append(completed, "persist")
             /\ printed' = Append(printed, "saved")
             /\ pc' = "analyze_consumption_data"
             /\ UNCHANGED << exc, exit_code >>
        ELSE /\ pc' = "crashed"
             /\ exc' = Some("OSError")
             /\ exit_code' = Some(1)
             /\ UNCHANGED << output_file, printed, completed >>
    /\ UNCHANGED << args, clock, zoneinfo_ok, local_tz, access_token, date_range,
                    request, response, fetched, data, login_calls, get_calls, day_idx,
                    reading_idx, day_consumption, day_injection, report >>

-----------------------------------------------------------------------------
(* analyze_consumption_data.                                               *)

DigitVal(c) ==
    CASE c = "0" -> 0 [] c = "1" -> 1 [] c = "2" -> 2 [] c = "3" -> 3
      [] c = "4" -> 4 [] c = "5" -> 5 [] c = "6" -> 6 [] c = "7" -> 7
      [] c = "8" -> 8 [] c = "9" -> 9

RECURSIVE ParseDigits(_)
ParseDigits(s) ==
    IF s = << >> THEN 0
    ELSE ParseDigits(SubSeq(s, 1, Len(s) - 1)) * 10 + DigitVal(s[Len(s)])

\* float(text) in tenths, for text of the form digits or digits.digit
ParseTenths(s) ==
    IF \E k \in 1..Len(s) : s[k] = "."
    THEN LET k == CHOOSE i \in 1..Len(s) : s[i] = "."
         IN  ParseDigits(SubSeq(s, 1, k - 1)) * 10 + ParseDigits(SubSeq(s, k + 1, Len(s)))
    ELSE ParseDigits(s) * 10

\* float(x) in tenths, for a JSON number or a numeric JSON string
float(j) == IF j.kind = "number" THEN j.tenths ELSE ParseTenths(j.chars)

\* an element of the sample that has the method get
IsDict(x) == "kind" \notin DOMAIN x

\* add_reading with "else" for "elif direction == 2"
add_reading_else_injection(acc, reading) ==
    LET direction == Get(reading, "dc", 0)
        value == float(Get(reading, "v", JNumber(0)))
    IN  IF direction = 1
        THEN [acc EXCEPT !.consumption = acc.consumption + value]
        ELSE [acc EXCEPT !.injection = acc.injection + value]

\* The body of the loop over the readings: the accumulators after reading.
add_reading(acc, reading) ==
    LET direction == Get(reading, "dc", 0)
        value == float(Get(reading, "v", JNumber(0)))
    IN  IF direction = 1
        THEN [acc EXCEPT !.consumption = acc.consumption + value]
        ELSE IF direction = 2
        THEN [acc EXCEPT !.injection = acc.injection + value]
        ELSE acc

\* the line printed for a reading, "" when none is printed
reading_line(reading) ==
    LET direction == Get(reading, "dc", 0)
        tariff_name == IF Get(reading, "t", 0) = 1 THEN "High" ELSE "Low"
    IN  IF direction = 1
        THEN (IF tariff_name = "High" THEN "Consumption (High)" ELSE "Consumption (Low)")
        ELSE IF direction = 2
        THEN (IF tariff_name = "High" THEN "Injection (High)" ELSE "Injection (Low)")
        ELSE ""

\* the totals printed after the readings of a day
day_totals(date, consumption, injection) ==
    [date |-> date, consumption |-> consumption, injection |-> injection,
     net |-> consumption - injection]

sample == List(Val(data))
day_data == sample[day_idx + 1]
values == Get(day_data, "v", << >>)

\* sample = list(data); the empty check; the header
AnalyzeStart ==
    /\ pc = "analyze_consumption_data"
    /\ started' = Append(started, "report")
    /\ IF sample = << >>
       THEN /\ printed' = Append(printed, "No data to analyze")
            /\ pc' = "analysis_done"
       ELSE /\ printed' = Append(printed, "CONSUMPTION ANALYSIS")
            /\ pc' = "analyze_day"
    /\ day_idx' = 0
    /\ UNCHANGED << args, clock, zoneinfo_ok, local_tz, access_token, date_range,
                    request, response, fetched, data, output_file, login_calls, get_calls,
                    completed, reading_idx, day_consumption, day_injection,
                    report, exc, exit_code >>

\* the head of the outer loop body: date, values, the zeroed accumulators
AnalyzeDay ==
    /\ pc = "analyze_day"
    /\ IF IsDict(day_data)
       THEN /\ printed' = Append(printed, "Day")
            /\ day_consumption' = 0
            /\ day_injection' = 0
            /\ reading_idx' = 0
            /\ pc' = "analyze_reading"
            /\ UNCHANGED << exc, exit_code >>
       ELSE /\ pc' = "crashed"
            /\ exc' = Some("AttributeError")
            /\ exit_code' = Some(1)
            /\ UNCHANGED << printed, day_consumption, day_injection, reading_idx >>
    /\ UNCHANGED << args, clock, zoneinfo_ok, local_tz, access_token, date_range,
                    request, response, fetched, data, output_file, login_calls, get_calls,
                    started, completed, day_idx, report >>

\* one iteration of the inner loop
AnalyzeReading ==
    /\ pc = "analyze_reading"
    /\ reading_idx < Len(values)
    /\ LET reading == values[reading_idx + 1]
           acc == add_reading([consumption |-> day_consumption,
                               injection |-> day_injection], reading)
       IN  /\ day_consumption' = acc.consumption
           /\ day_injection' = acc.injection
           /\ printed' = IF reading_line(reading) = "" THEN printed
                         ELSE Append(printed, reading_line(reading))
    /\ reading_idx' = reading_idx + 1
    /\ UNCHANGED << pc, args, clock, zoneinfo_ok, local_tz, access_token,
                    date_range, request, response, fetched, data, output_file, login_calls,
                    get_calls, started, completed, day_idx, report, exc, exit_code >>

\* the three totals printed after the inner loop; the next day or the end
AnalyzeDayTotals ==
    /\ pc = "analyze_reading"
    /\ reading_idx = Len(values)
    /\ report' = Append(report, day_totals(Get(day_data, "d", "Unknown date"),
                                           day_consumption, day_injection))
    /\ day_idx' = day_idx + 1
    /\ pc' = IF day_idx + 1 < Len(sample) THEN "analyze_day" ELSE "analysis_done"
    /\ UNCHANGED << args, clock, zoneinfo_ok, local_tz, access_token, date_range,
                    request, response, fetched, data, output_file, login_calls, get_calls,
                    started, completed, reading_idx, day_consumption,
                    day_injection, printed, exc, exit_code >>

\* analyze_consumption_data returned: main returns 0
ReturnSuccess ==
    /\ pc = "analysis_done"
    /\ completed' = Append(completed, "report")
    /\ pc' = "returned"
    /\ exit_code' = Some(0)
    /\ UNCHANGED << args, clock, zoneinfo_ok, local_tz, access_token, date_range,
                    request, response, fetched, data, output_file, login_calls, get_calls,
                    started, day_idx, reading_idx, day_consumption, day_injection,
                    report, printed, exc >>

-----------------------------------------------------------------------------
(* Initial states and specifications.                                      *)

Namespace(token, email, password, ean, serial, days, tz) ==
    [bearer_token |-> token, email |-> email, password |-> password,
     ean |-> ean, meter_serial |-> serial, days_back |-> days, timezone |-> tz,
     granularity |-> "4", output |-> "fluvius_consumption_data.json"]

Clock(h, m, s_, us) ==
    [day |-> Today, hour |-> h, minute |-> m, second |-> s_, microsecond |-> us]

NewYork == [key |-> "local", off |-> 0 - 300]

\* the locals of main and of the analyzer before main has run
Fresh ==
    /\ access_token = None
    /\ date_range = None
    /\ request = None
    /\ response = None
    /\ fetched = None
    /\ data = None
    /\ output_file = None
    /\ login_calls = 0
    /\ get_calls = 0
    /\ started = << >>
    /\ completed = << >>
    /\ day_idx = 0
    /\ reading_idx = 0
    /\ day_consumption = 0
    /\ day_injection = 0
    /\ report = << >>
    /\ printed = << >>
    /\ exc = None
    /\ exit_code = None

(* The whole program: a run of main from its first line.                   *)

StrInputs == { None, Some(""), Some("x") }
MainTokens ==
    { None, Some(<< >>), Some(<< "x" >>),
      Some(<< "B", "e", "a", "r", "e", "r", " ", "x" >>) }
MainDaysBack == { 0 - 1, 1 }
MainTimezones == { Some("Europe/Brussels"), Some("Nope/Zone"), Some("../x") }

Init ==
    /\ pc = "parse_args"
    /\ args \in { Namespace(tk, em, pw, ean, ser, n, tz) :
                    tk \in MainTokens, em \in StrInputs, pw \in StrInputs,
                    ean \in StrInputs, ser \in StrInputs, n \in MainDaysBack,
                    tz \in MainTimezones }
    /\ clock = Clock(12, 30, 15, 123456)
    /\ zoneinfo_ok \in BOOLEAN
    /\ local_tz = Some(NewYork)
    /\ Fresh

Next ==
    \/ ParseArgsError
    \/ ParseArgsOk
    \/ RequestTokenSupplied
    \/ RequestTokenLogin
    \/ BuildRange
    \/ RequestsGet
    \/ GetResponse
    \/ ReturnNoData
    \/ SaveOutput
    \/ AnalyzeStart
    \/ AnalyzeDay
    \/ AnalyzeReading
    \/ AnalyzeDayTotals
    \/ ReturnSuccess

Spec == Init /\ [][Next]_vars

(* request_access_token on its own, for bearer tokens assembled from       *)
(* whitespace, the word Bearer in two spellings, and a token character.    *)

Pieces ==
    { << SP >>, << TAB >>, << "x" >>,
      << "B", "e", "a", "r", "e", "r" >>, << "b", "E", "A", "R", "E", "R" >> }

RECURSIVE Flatten(_)
Flatten(ps) == IF ps = << >> THEN << >> ELSE Head(ps) \o Flatten(Tail(ps))

TokenInputs == { Flatten(ps) : ps \in UNION { [1..k -> Pieces] : k \in 0..MaxPieces } }

InitToken ==
    /\ pc = "request_access_token"
    /\ args \in { Namespace(tk, Some("x"), Some("x"), Some("x"), Some("x"), 1,
                            Some("Europe/Brussels")) :
                    tk \in { None } \cup { Some(t) : t \in TokenInputs } }
    /\ clock = Clock(12, 30, 15, 123456)
    /\ zoneinfo_ok = TRUE
    /\ local_tz = Some(NewYork)
    /\ Fresh

NextToken == RequestTokenSupplied \/ RequestTokenLogin

SpecToken == InitToken /\ [][NextToken]_vars

(* get_consumption_data on its own, for days_back around zero and around   *)
(* the limits of date and timedelta, every kind of timezone name, and      *)
(* clocks on both sides of midnight.                                       *)

RangeDaysBack ==
    ((0 - 1)..MaxDaysBack) \cup { Today - 1, Today + 1, MAXDELTADAYS + 1 }
RangeTimezones ==
    { None, Some(""), Some("Europe/Brussels"), Some("America/New_York"),
      Some("Nope/Zone"), Some("../x") }
RangeClocks ==
    { Clock(0, 0, 0, 0), Clock(12, 30, 15, 123456), Clock(23, 30, 0, 0),
      Clock(23, 59, 59, 999999) }

InitRange ==
    /\ pc = "get_consumption_data"
    /\ args \in { Namespace(Some(<< "x" >>), None, None, Some("x"), Some("x"), n, tz) :
                    n \in RangeDaysBack, tz \in RangeTimezones }
    /\ clock \in RangeClocks
    /\ zoneinfo_ok \in BOOLEAN
    /\ local_tz \in { Some(NewYork), Some(UTC) }
    /\ access_token = Some(<< "x" >>)
    /\ date_range = None
    /\ request = None
    /\ response = None
    /\ fetched = None
    /\ data = None
    /\ output_file = None
    /\ login_calls = 0
    /\ get_calls = 0
    /\ started = << "authenticate" >>
    /\ completed = << "authenticate" >>
    /\ day_idx = 0
    /\ reading_idx = 0
    /\ day_consumption = 0
    /\ day_injection = 0
    /\ report = << >>
    /\ printed = << "auth_ok" >>
    /\ exc = None
    /\ exit_code = None

NextRange == BuildRange \/ RequestsGet \/ GetResponse

SpecRange == InitRange /\ [][NextRange]_vars

(* analyze_consumption_data on its own, for every list of at most MaxDays  *)
(* day records holding at most MaxReadings readings together.              *)

ReadingInputs ==
    { Reading(1, 1, JString(<< "2", ".", "5" >>)),
      Reading(2, 2, JNumber(40)),
      [t |-> 1, v |-> JNumber(7)],
      [dc |-> 1, t |-> 2],
      Reading(3, 1, JNumber(9)) }

ReadingSeqs(n) == UNION { [1..k -> ReadingInputs] : k \in 0..n }

\* the day records that hold at most n readings
DayInputs(n) ==
    { [d |-> "2024-01-01", v |-> rs] : rs \in ReadingSeqs(n) }
        \cup { [v |-> rs] : rs \in ReadingSeqs(n) }
        \cup { [d |-> "2024-01-02"] }

RECURSIVE DayLists(_, _)
\* the lists of exactly k day records that hold at most n readings together
DayLists(k, n) ==
    IF k = 0 THEN { << >> }
    ELSE UNION { { << day >> \o rest : rest \in DayLists(k - 1, n - Len(Get(day, "v", << >>))) } :
                   day \in DayInputs(n) }

AnalyzeInputs == UNION { DayLists(k, MaxReadings) : k \in 0..MaxDays }

InitAnalyze ==
    /\ pc = "analyze_consumption_data"
    /\ args = Namespace(Some(<< "x" >>), None, None, Some("x"), Some("x"), 1,
                        Some("Europe/Brussels"))
    /\ clock = Clock(12, 30, 15, 123456)
    /\ zoneinfo_ok = TRUE
    /\ local_tz = Some(NewYork)
    /\ data \in { Some(JArray(days)) : days \in AnalyzeInputs }
    /\ access_token = None
    /\ date_range = None
    /\ request = None
    /\ response = None
    /\ fetched = None
    /\ output_file = None
    /\ login_calls = 0
    /\ get_calls = 0
    /\ started = << >>
    /\ completed = << >>
    /\ day_idx = 0
    /\ reading_idx = 0
    /\ day_consumption = 0
    /\ day_injection = 0
    /\ report = << >>
    /\ printed = << >>
    /\ exc = None
    /\ exit_code = None

NextAnalyze == AnalyzeStart \/ AnalyzeDay \/ AnalyzeReading \/ AnalyzeDayTotals

SpecAnalyze == InitAnalyze /\ [][NextAnalyze]_vars

-----------------------------------------------------------------------------
(* Properties.                                                             *)

Printed(tag) == \E i \in 1..Len(printed) : printed[i] = tag
IsPrefix(a, b) == Len(a) <= Len(b) /\ SubSeq(b, 1, Len(a)) = a
StepOrder == << "authenticate", "fetch", "persist", "report" >>

\* C1: a run in which main returns ends with exit code 0 or 1; it is 0 only
\* when the token was obtained, the fetch returned a non-empty result, the
\* output file was written and the report was printed; it is 1 when the
\* collaborator raised FluviusAuthError or RequestException and when the
\* fetch failed or returned an empty result.
C1_ExitCodes ==
    pc = "returned" =>
        /\ exit_code \in { Some(0), Some(1) }
        /\ exit_code = Some(0) =>
              /\ ~IsNone(access_token)
              /\ ~IsNone(fetched)
              /\ Truthy(Val(fetched))
              /\ ~IsNone(output_file)
              /\ Printed("CONSUMPTION ANALYSIS")
              /\ Len(report) = Len(List(Val(fetched)))
        /\ (Printed("FluviusAuthError") \/ Printed("RequestException")) =>
              exit_code = Some(1)
        /\ (get_calls = 1 /\ IsNone(fetched)) => exit_code = Some(1)
        /\ (get_calls = 1 /\ ~IsNone(fetched) /\ ~Truthy(Val(fetched))) =>
              exit_code = Some(1)

C1_Witness ==
    /\ pc = "returned"
    /\ exit_code = Some(0)
    /\ login_calls = 1
    /\ Len(report) = 2

\* the failures of the GET that C2 names: connection error, timeout after
\* the bound, a status outside 200..299, a body that is no JSON
C2_FailureNon2xx(o) ==
    \/ o.conn = "refused"
    \/ o.elapsed > TIMEOUT
    \/ ~(200 <= o.status /\ o.status <= 299)
    \/ o.body.kind = "text"

\* the same with "a 4xx or 5xx status" for "a status outside 200..299"
C2_Failure4xx5xx(o) ==
    \/ o.conn = "refused"
    \/ o.elapsed > TIMEOUT
    \/ (400 <= o.status /\ o.status <= 599)
    \/ o.body.kind = "text"

\* what C2 says of a run whose GET ended in a failure
C2_Aborted ==
    /\ IsNone(fetched)
    /\ IsNone(data)
    /\ get_calls = 1
    /\ IsNone(output_file)
    /\ ~("persist" \in { started[i] : i \in 1..Len(started) })
    /\ pc \in { "got_data", "returned" }
    /\ pc = "returned" => exit_code = Some(1)
    /\ pc = "got_data" => no_data(data)

\* C2 as stated: after a GET that ended in a connection error, a timeout, a
\* non-2xx status or a non-JSON body, get_consumption_data has returned None,
\* the GET is not repeated, the exit code is 1 and nothing is written.
C2_Original ==
    (~IsNone(response) /\ C2_FailureNon2xx(Val(response))) => C2_Aborted

\* C2 amended: the same for a connection error, a timeout, a 4xx or 5xx
\* status or a non-JSON body.
C2_TransportFailureAborts ==
    (~IsNone(response) /\ C2_Failure4xx5xx(Val(response))) => C2_Aborted

C2_Witness ==
    /\ pc = "returned"
    /\ exit_code = Some(1)
    /\ ~IsNone(response)
    /\ Val(response).status = 500
    /\ Val(response).body.kind = "array"

\* C3: the steps start in the order authenticate, fetch, persist, report,
\* each at most once and only when every earlier step has completed
\* successfully; at most one login call and one GET are made.
C3_StepOrder ==
    /\ IsPrefix(started, StepOrder)
    /\ IsPrefix(completed, started)
    /\ Len(started) <= Len(completed) + 1
    /\ login_calls <= 1
    /\ get_calls <= 1
    /\ pc = "crashed" => Len(completed) < Len(StepOrder)
    /\ (pc = "returned" /\ exit_code = Some(1)) => Len(completed) < Len(started)

C3_Witness ==
    /\ pc = "returned"
    /\ completed = StepOrder
    /\ login_calls = 1
    /\ get_calls = 1

\* an option or environment variable that is absent or empty
C4_Missing(o) == o = None \/ o = Some("")
C4_NoToken(a) == a.bearer_token = None \/ a.bearer_token = Some(<< >>)

\* C4: configuration resolution fails exactly when no token is supplied and
\* email or password is missing, or EAN is missing, or the meter serial is
\* missing; when it fails no login call and no GET is made.
C4_ConfigurationError ==
    pc # "parse_args" =>
        /\ exit_code = Some(2) <=>
              \/ C4_NoToken(args) /\ (C4_Missing(args.email) \/ C4_Missing(args.password))
              \/ C4_Missing(args.ean)
              \/ C4_Missing(args.meter_serial)
        /\ exit_code = Some(2) =>
              /\ pc = "exited"
              /\ login_calls = 0
              /\ get_calls = 0
              /\ started = << >>

C4_Witness ==
    /\ pc = "returned"
    /\ exit_code = Some(0)
    /\ ~C4_NoToken(args)
    /\ C4_Missing(args.email)
    /\ C4_Missing(args.password)

\* the token C5 expects for a supplied bearer token: the text stripped, a
\* leading "bearer " in any letter case removed, and the remainder stripped
C5_Expected(token) ==
    LET t == Strip(token)
    IN  IF StartsWith(Lower(t), BearerSp)
        THEN Strip(SubSeq(t, Len(BearerSp) + 1, Len(t)))
        ELSE t

\* C5: for a supplied bearer token request_access_token returns the token
\* with the Bearer prefix removed and without leading or trailing
\* whitespace, and get_bearer_token_http is not called.
C5_SuppliedToken ==
    (pc # "request_access_token" /\ ~TokenFalsy(args.bearer_token)) =>
        /\ login_calls = 0
        /\ ~IsNone(access_token)
        /\ Val(access_token) = Strip(Val(access_token))
        /\ Val(access_token) = C5_Expected(Val(args.bearer_token))

\* the wall-clock date of the clock's instant in zone
C6_LocalDay(zone) ==
    clock.day + ((clock.hour * 60 + clock.minute + zone.off) \div MinutesPerDay)

C6_Midnight(day, off) == [day |-> day, hh |-> 0, mm |-> 0, ss |-> 0, mmm |-> 0, off |-> off]
C6_EndOfDay(day, off) == [day |-> day, hh |-> 23, mm |-> 59, ss |-> 59, mmm |-> 999, off |-> off]

\* the range C6 names, for days_back n and the zone the name resolves to
C6_Range(n, zone) ==
    Some([historyFrom |-> C6_Midnight(C6_LocalDay(zone) - n, zone.off),
          historyUntil |-> C6_EndOfDay(C6_LocalDay(zone), zone.off)])

\* the case of C6: the range builder has run for days_back >= 0 and a
\* timezone name that resolved
C6_Case ==
    /\ pc # "get_consumption_data"
    /\ args.days_back >= 0
    /\ resolve_timezone(args.timezone).r = "ok"

\* C6 as stated: for every days_back = N >= 0 and every now the range is
\* 00:00:00.000 of the date N days before the date of now to 23:59:59.999
\* of the date of now.
C6_Original ==
    C6_Case => date_range = C6_Range(args.days_back, resolve_timezone(args.timezone).zone)

\* C6 amended: the same for every N >= 0 for which timedelta(days=N) and the
\* date N days before now exist (N <= 999999999 and the date is not before
\* 0001-01-01); for the other N >= 0 OverflowError leaves the function and
\* no range is built.
C6_HistoryRange ==
    C6_Case =>
        LET zone == resolve_timezone(args.timezone).zone
            n == args.days_back
        IN  IF n <= MAXDELTADAYS /\ C6_LocalDay(zone) - n >= MINORDINAL
            THEN date_range = C6_Range(n, zone)
            ELSE /\ date_range = None
                 /\ pc = "crashed"
                 /\ exc = Some("OverflowError")
                 /\ get_calls = 0

C6_Witness ==
    /\ pc = "requests_get"
    /\ args.days_back = 2
    /\ args.timezone = Some("Europe/Brussels")
    /\ zoneinfo_ok
    /\ clock.hour = 23
    /\ Val(date_range).historyFrom.day = Today - 1
    /\ Val(date_range).historyUntil.day = Today + 1

\* the instant of a timestamp: UTC day, minute of the UTC day, second, ms
C7_Instant(ts) ==
    LET m == ts.hh * 60 + ts.mm - ts.off
    IN  << ts.day + (m \div MinutesPerDay), m % MinutesPerDay, ts.ss, ts.mmm >>

RECURSIVE C7_LexLeq(_, _)
C7_LexLeq(a, b) ==
    IF a = << >> THEN TRUE
    ELSE IF Head(a) < Head(b) THEN TRUE
    ELSE IF Head(a) > Head(b) THEN FALSE
    ELSE C7_LexLeq(Tail(a), Tail(b))

\* C7: every range passed to the consumption GET has
\* historyFrom <= historyUntil, for every days_back _parse_args accepts and
\* every timezone name.
C7_OrderedRange ==
    ~IsNone(request) =>
        C7_LexLeq(C7_Instant(Val(request).historyFrom), C7_Instant(Val(request).historyUntil))

\* C8: _resolve_timezone returns a zone for every timezone name, the named
\* zone if it can be loaded, else the local zone, else UTC, and no outcome of
\* loading the named zone aborts the run.
C8_TimezoneNeverFails ==
    pc # "get_consumption_data" =>
        LET res == resolve_timezone(args.timezone)
            named == ~Falsy(args.timezone) /\ zoneinfo_ok /\ Val(args.timezone) \in TzKeys
        IN  /\ res.r = "ok"
            /\ exc \notin { Some("ValueError"), Some("ZoneInfoNotFoundError") }
            /\ res.r = "ok" =>
                  res.zone = IF named THEN [key |-> Val(args.timezone),
                                            off |-> TzOffset(Val(args.timezone))]
                             ELSE IF ~IsNone(local_tz) THEN Val(local_tz)
                             ELSE UTC

\* the value of a reading, 0 when it has none
C9_Value(reading) == IF "v" \in DOMAIN reading THEN float(reading.v) ELSE 0

RECURSIVE C9_Sum(_, _)
\* the sum of the values of the readings of vals with direction code dir
C9_Sum(vals, dir) ==
    IF vals = << >> THEN 0
    ELSE (IF "dc" \in DOMAIN Head(vals) /\ Head(vals).dc = dir
          THEN C9_Value(Head(vals)) ELSE 0) + C9_Sum(Tail(vals), dir)

\* C9: the days are processed in their order; the totals of a day are the
\* sum of its direction 1 values, the sum of its direction 2 values and
\* their difference, with nothing carried over from the day before.
C9_DailyTotals ==
    /\ Len(report) <= Len(sample)
    /\ pc = "analysis_done" => Len(report) = Len(sample)
    /\ pc \in { "analyze_day", "analyze_reading" } => Len(report) = day_idx
    /\ \A i \in 1..Len(report) :
          LET vals == Get(sample[i], "v", << >>)
          IN  /\ report[i].date = Get(sample[i], "d", "Unknown date")
              /\ report[i].consumption = C9_Sum(vals, 1)
              /\ report[i].injection = C9_Sum(vals, 2)
              /\ report[i].net = C9_Sum(vals, 1) - C9_Sum(vals, 2)

C9_Witness ==
    /\ pc = "analysis_done"
    /\ Len(report) = 2
    /\ report[1].consumption = 25
    /\ report[2].consumption = 0
    /\ report[2].net < 0

\* C10: the persister and the analyzer run only with the non-empty result
\* of the one GET, unchanged; the file holds what was fetched; the analyzer
\* never prints "No data to analyze".
C10_SameData ==
    /\ ~Printed("No data to analyze")
    /\ Len(started) >= 3 =>
          /\ get_calls = 1
          /\ ~IsNone(fetched)
          /\ Truthy(Val(fetched))
          /\ data = fetched
    /\ ~IsNone(output_file) => output_file = Some(json_dump(Val(fetched)))
    /\ Len(started) >= 4 =>
          /\ ~IsNone(output_file)
          /\ sample = List(Val(fetched))
          /\ sample # << >>

C10_Witness ==
    /\ pc = "analyze_reading"
    /\ day_idx = 1
    /\ ~IsNone(output_file)
    /\ data = fetched

====
